---- MODULE Spec2Model ----
(***************************************************************************)
(* Model of the streaming delivery pipeline, the task registry and the     *)
(* error classifier of DeepAgent (agent/deepagent/deep_research_agent.py). *)
(*                                                                         *)
(* Each run of run_agent is a coroutine.  Between two awaits the code of a *)
(* coroutine is atomic, so every action below is the code from one         *)
(* suspension point (await) to the next one.                               *)
(*                                                                         *)
(* The SQL tools of agent/deepagent/tools/native_sql_tools.py are plain    *)
(* functions that the agent runtime runs on worker threads; their steps    *)
(* are the accesses to the state they share: the module-level data source  *)
(* binding and the per-session call ledger of the tool call manager.       *)
(***************************************************************************)
EXTENDS Naturals, Sequences, FiniteSets, TLC

VARIABLES
    reg,      \* self.running_tasks : task_id -> task_context
    run,      \* per run: position and locals of run_agent/_stream_agent_response
    chan,     \* per run: state of the output channel (response)
    log,      \* per run: every write attempted on the channel, in order
    faulty,   \* the runs whose channel, runtime and coroutine can fail
    last,     \* the control-plane call made by the last step, with its result
    asked,    \* the runs whose own entry a cancel_task call found and flagged
    cur,      \* native_sql_tools._current_datasource (module-level global)
    ledger,   \* tool call manager: session_id -> sequence of Call Records
    inv       \* per agent: the tool invocation in progress and those finished

pipevars == <<reg, run, chan, log, faulty, last, asked>>
govvars == <<cur, ledger, inv>>
vars == <<reg, run, chan, log, faulty, last, asked, cur, ledger, inv>>

----------------------------------------------------------------------------
(* Bounds of the model *)

MaxGrow == 2        \* a snapshot adds at most this many messages
MaxCalls == 3       \* the first agent invokes at most this many tools

\* Two runs.  Faults (the client leaving, the runtime raising, the coroutine being
\* cancelled) hit the first one only; the second one is healthy and is there for
\* what it does to the registry meanwhile.
Runs == {"r1", "r2"}
TaskIds == {"t1", "t2"}

----------------------------------------------------------------------------
(* Transcript messages (langchain HumanMessage / AIMessage / ToolMessage) *)

Human(hasText) ==
    [type |-> "human", text |-> hasText, calls |-> << >>, name |-> "", err |-> FALSE]
Ai(hasText, toolCalls) ==
    [type |-> "ai", text |-> hasText, calls |-> toolCalls, name |-> "", err |-> FALSE]
Tool(toolName, hasError) ==
    [type |-> "tool", text |-> TRUE, calls |-> << >>, name |-> toolName, err |-> hasError]

\* The transcripts the agent runtime can produce in this model.
Scripts ==
    << << Human(TRUE), Ai(TRUE, <<"sql_db_schema">>), Tool("sql_db_schema", FALSE),
          Ai(TRUE, << >>) >>,
       << Human(TRUE), Ai(FALSE, <<"write_todos", "sql_db_query">>),
          Tool("sql_db_query", TRUE) >>,
       << Human(TRUE) >>,
       << Human(TRUE), Ai(TRUE, << >>), Ai(FALSE, <<"sql_db_schema">>),
          Tool("sql_db_schema", FALSE), Ai(TRUE, << >>) >>,
       << Human(TRUE), Ai(FALSE, << >>), Ai(FALSE, <<"write_todos">>),
          Ai(TRUE, << >>) >>,
       << Human(TRUE), Ai(FALSE, <<"write_todos">>), Tool("write_todos", FALSE),
          Ai(TRUE, << >>) >>,
       << Human(TRUE), Ai(TRUE, << >>), Human(TRUE), Ai(TRUE, << >>) >> >>

\* The messages of a transcript that an earlier turn left on the conversation
\* thread (the checkpointer keeps them under the thread_id): the last transcript
\* is the second turn of a conversation, its first two messages are the first turn.
History(script) == IF script = 7 THEN 2 ELSE 0

\* The transcripts a run can get.  The second run is there for what it does to the
\* registry while the first one streams, so it gets the short transcript only.
ScriptsOf(r) == IF r = "r1" THEN {1, 2} ELSE {3}

\* The five-message transcript, the one with two messages that render nothing,
\* the one with the result of a tool that is not an SQL tool and the second turn
\* of a conversation are for the first run when it is not exposed to faults (f is
\* the set of runs that are).
ScriptsFor(r, f) ==
    ScriptsOf(r) \cup (IF r = "r1" /\ r \notin f THEN {4, 5, 6, 7} ELSE {})

\* str(e)[:200]: the number of characters of the error text an error message quotes
ExcerptLimit == 200

\* Exceptions, abstracted to what the handlers read: the type name, the keywords
\* contained in the lower-cased message, and the length of the message.
Exc(tyName, hasConnKw, hasTimeoutKw) ==
    [ty |-> tyName, connkw |-> hasConnKw, tokw |-> hasTimeoutKw, len |-> ExcerptLimit]

\* The same exception with a message of n characters.
OfLen(e, n) == [e EXCEPT !.len = n]

\* What agent.astream can raise (LLM client, database driver, graph errors).
RuntimeExcs ==
    { Exc("TimeoutError", FALSE, FALSE), Exc("ValueError", FALSE, FALSE),
      Exc("APITimeoutError", FALSE, TRUE), Exc("ConnectionResetError", TRUE, FALSE) }

\* What _create_sql_deep_agent can raise.
CreateExcs ==
    { Exc("ValueError", FALSE, FALSE), Exc("OSError", FALSE, FALSE) }

\* What response.write / response.flush raise on a channel the client left.
WriteExcs ==
    { Exc("BrokenPipeError", FALSE, FALSE), Exc("RuntimeError", TRUE, FALSE),
      Exc("RuntimeError", FALSE, FALSE) }

NoExc == Exc("none", FALSE, FALSE)

----------------------------------------------------------------------------
(* Pure helpers *)

ConnectionErrorTypes ==
    {"ConnectionClosed", "ConnectionResetError", "BrokenPipeError",
     "ConnectionError", "OSError"}

\* Every exception the handlers tell apart: each type name they test for and
\* some they do not, with or without the keywords, with a message shorter than,
\* as long as, or longer than the excerpt.
ExcTypes == ConnectionErrorTypes \cup {"TimeoutError", "APITimeoutError", "ValueError"}
AnyExcs ==
    { OfLen(Exc(ty, c, k), n) : ty \in ExcTypes, c \in BOOLEAN, k \in BOOLEAN,
                               n \in {ExcerptLimit - 1, ExcerptLimit, ExcerptLimit + 1} }

\* A classifier that looks at the exception type only, not at the message.
IsConnectionErrorByType(e) == e.ty \in ConnectionErrorTypes

\* _is_connection_error
IsConnectionError(e) == e.ty \in ConnectionErrorTypes \/ e.connkw

\* A timeout test that looks at the exception type only, not at the message.
IsTimeoutByType(e) == e.ty \in {"TimeoutError", "asyncio.TimeoutError"}

\* is_timeout in the handler of _stream_agent_response
IsTimeout(e) == e.tokw \/ e.ty \in {"TimeoutError", "asyncio.TimeoutError"}

\* A _format_tool_call with a banner for every tool name.
FormatToolCallAny(name) == "toolcall"

\* _format_tool_call: the frame a tool call renders to, "none" when it is skipped
FormatToolCall(name) ==
    IF name \in {"sql_db_query", "sql_db_schema", "sql_db_list_tables",
                 "sql_db_query_checker"}
    THEN "toolcall" ELSE "none"

\* "sql" in name.lower(), for the tool names of the model
HasSql(name) ==
    name \in {"sql_db_query", "sql_db_schema", "sql_db_list_tables",
              "sql_db_query_checker"}

\* _format_tool_result
FormatToolResult(name, hasError) ==
    IF HasSql(name) THEN (IF hasError THEN "result_fail" ELSE "result_ok") ELSE "none"

\* messageType of a frame kind (_create_response's message_type argument)
MessageType(k) ==
    CASE k \in {"human", "agent"} -> "continue"
      [] k \in {"toolcall", "result_ok", "cancel_notice", "disc_notice"} -> "info"
      [] k \in {"result_fail", "timeout_err", "other_err", "agent_err", "ds_err"} -> "error"
      [] k = "end" -> "end"

\* A frame; n is the number of characters of an underlying error text it quotes.
Frame(k, delivered) == [k |-> k, mt |-> MessageType(k), ok |-> delivered, n |-> 0]

\* str(e)[:200]
Excerpt(n) == IF n > ExcerptLimit THEN ExcerptLimit ELSE n

\* The characters of str(e) in the error message of kind k: the handler of
\* _stream_agent_response quotes an excerpt, the one of run_agent the whole text,
\* the timeout message none.
ErrorText(k, e) ==
    CASE k = "other_err" -> Excerpt(e.len)
      [] k = "agent_err" -> e.len
      [] OTHER -> 0

ErrorFrame(k, delivered, e) == [Frame(k, delivered) EXCEPT !.n = ErrorText(k, e)]

----------------------------------------------------------------------------
(* Task registry: self.running_tasks *)

NoCall == [op |-> "none", tid |-> "none", ret |-> FALSE]

\* The calls are not being recorded.
CallsOff == [op |-> "off", tid |-> "none", ret |-> FALSE]

NoEntry == [present |-> FALSE, cancelled |-> FALSE, owner |-> "none"]

\* run_agent: task_context = {"cancelled": False}; running_tasks[task_id] = task_context.
\* owner names the run that created the context object (the code never reads it).
Register(rt, t, r) ==
    [rt EXCEPT ![t] = [present |-> TRUE, cancelled |-> FALSE, owner |-> r]]

\* A finally block that leaves the registry as it is.
KeepEntry(rt, t) == rt

\* A finally block that empties the registry.
RetireAll(rt, t) == [u \in TaskIds |-> NoEntry]

\* run_agent, finally: if task_id in running_tasks: del running_tasks[task_id]
Retire(rt, t) == [rt EXCEPT ![t] = NoEntry]

\* _is_task_cancelled
IsTaskCancelled(rt, t) == rt[t].present /\ rt[t].cancelled

\* A cancel_task that flags the task without looking whether it is registered.
CancelUpdateAlways(rt, t) ==
    [rt EXCEPT ![t] = [present |-> TRUE, cancelled |-> TRUE, owner |-> rt[t].owner]]

\* cancel_task: the registry it leaves
CancelUpdate(rt, t) ==
    IF rt[t].present THEN [rt EXCEPT ![t].cancelled = TRUE] ELSE rt

\* cancel_task: the value it returns
CancelResult(rt, t) == rt[t].present

\* get_running_tasks
GetRunningTasks(rt) == {t \in TaskIds : rt[t].present}

\* A finally block that deletes the key without testing for it: KeyError when absent.
UnguardedDelRaises(rt, t) == t \notin GetRunningTasks(rt)

\* run_agent, finally: whether "if task_id in running_tasks: del running_tasks[task_id]"
\* raises KeyError (the del raises when the key is absent).
RetireRaises(rt, t) ==
    IF t \in GetRunningTasks(rt) THEN t \notin GetRunningTasks(rt) ELSE FALSE

----------------------------------------------------------------------------
(* Locals of one run *)

IdleRun ==
    [pc |-> "idle", tid |-> "none", script |-> 0,
     snap |-> 0,            \* len(messages) of the snapshot being processed
     printed |-> 0,         \* printed_count
     i |-> 0, j |-> 0,      \* message of the snapshot and write inside it being done
     cc |-> FALSE,          \* connection_closed
     hctx |-> "none",       \* which caller _handle_task_cancellation returns to
     isuser |-> FALSE,      \* its is_user_cancelled argument
     errk |-> "none",       \* the error message the handler is sending
     raising |-> FALSE,     \* CancelledError propagating through the finally block
     killed |-> FALSE,      \* CancelledError was thrown into the coroutine
     handed |-> << >>,      \* transcript indexes handed to _print_message, in order
     rendered |-> 0,        \* messages for which _print_message returned True
     saved |-> 0,           \* calls of add_user_record
     t02 |-> << >>,         \* t02_answer_data: the blocks collected for the record
     term |-> "none",       \* how the run left the streaming loop
     cause |-> "none",      \* the fault that ended the loop, if any
     exc |-> NoExc,         \* the exception of that fault
     escaped |-> FALSE]     \* an exception left run_agent

\* The messages of the snapshot a run is processing: a prefix of its transcript.
Messages(rec) == SubSeq(Scripts[rec.script], 1, rec.snap)

\* _print_message: the writes one message asks for, in order, as frame kinds;
\* "none" is a tool call that is polled for cancellation but renders nothing.
Ops(m) ==
    CASE m.type = "human" -> IF m.text THEN <<"human">> ELSE << >>
      [] m.type = "ai" ->
            (IF m.text THEN <<"agent">> ELSE << >>)
            \o [n \in 1..Len(m.calls) |-> FormatToolCall(m.calls[n])]
      [] m.type = "tool" ->
            IF FormatToolResult(m.name, m.err) # "none"
            THEN <<FormatToolResult(m.name, m.err)>> ELSE << >>

\* _print_message: a human or agent block is appended to t02_answer_data before it
\* is written, a tool-call or tool-result banner after its write succeeded.
AppendsFirst(k) == k \in {"human", "agent"}

BeforeWrite(rec, k) ==
    IF AppendsFirst(k) THEN [rec EXCEPT !.t02 = Append(rec.t02, k)] ELSE rec

AfterWrite(rec, k) ==
    IF AppendsFirst(k) THEN rec ELSE [rec EXCEPT !.t02 = Append(rec.t02, k)]

\* _safe_write on a channel in state ch, where a failing write raises e:
\* "ok" (True), "false" (connection error swallowed) or "raise".
SafeWrite(ch, e) ==
    IF ch = "open" THEN "ok"
    ELSE IF IsConnectionError(e) THEN "false" ELSE "raise"

\* A run_agent that goes back to streaming when _stream_agent_response is over.
AfterStreamRestarts(rec, c, isRaising) == [rec EXCEPT !.pc = "astream", !.raising = FALSE]

\* run_agent, except CancelledError / the end of the try: what follows the
\* finally block of _stream_agent_response.  c is _is_task_cancelled(task_id).
AfterStream(rec, c, isRaising) ==
    IF isRaising
    THEN [rec EXCEPT !.pc = "w_cinfo", !.hctx = "ra", !.isuser = c, !.raising = FALSE]
    ELSE [rec EXCEPT !.pc = "retire", !.raising = FALSE]

\* _stream_agent_response, finally: the record is saved unless the task is cancelled.
StreamFinally(rec, c, isRaising) ==
    IF ~c
    THEN [rec EXCEPT !.pc = "save", !.saved = rec.saved + 1, !.raising = isRaising,
                     !.i = 0, !.j = 0]
    ELSE AfterStream([rec EXCEPT !.i = 0, !.j = 0], c, isRaising)

\* _stream_agent_response: a cancellation poll of the loop found the flag set.
UserCancel(rec) ==
    [rec EXCEPT !.pc = "w_cinfo", !.hctx = "poll", !.isuser = TRUE,
                !.term = "cancelled", !.i = 0, !.j = 0]

\* A loop that notes the lost connection and goes on to the next snapshot.
BreakKeepsStreaming(rec, c, why, e) ==
    [rec EXCEPT !.cc = TRUE, !.printed = rec.snap, !.exc = e, !.cause = why,
                !.pc = "astream", !.i = 0, !.j = 0]

\* _stream_agent_response: _print_message returned False.
Break(rec, c, why, e) ==
    StreamFinally([rec EXCEPT !.cc = TRUE, !.printed = rec.snap, !.exc = e,
                              !.term = "disconnected", !.cause = why], c, FALSE)

\* _stream_agent_response, except Exception: an exception e raised inside the try.
RaiseInStream(rec, e, c, why) ==
    IF IsConnectionError(e)
    THEN StreamFinally([rec EXCEPT !.cc = TRUE, !.term = "disconnected",
                                   !.cause = why, !.exc = e], c, FALSE)
    ELSE [rec EXCEPT !.pc = "w_err", !.term = "failed", !.cause = why, !.exc = e,
                     !.errk = IF IsTimeout(e) THEN "timeout_err" ELSE "other_err",
                     !.i = 0, !.j = 0]

\* A slice that forgets the cursor: every snapshot is rendered from its start.
\* A run whose cursor resumes after the messages of the earlier turns.
NewRunResumes(t, s) ==
    [IdleRun EXCEPT !.pc = "astream", !.tid = t, !.script = s, !.printed = History(s)]

\* The locals of a run of task t over transcript s when _stream_agent_response
\* starts: printed_count = 0, connection_closed = False, t02_answer_data = [].
NewRun(t, s) == [IdleRun EXCEPT !.pc = "astream", !.tid = t, !.script = s]

\* By how much a snapshot can be longer than the one before.  With
\* stream_mode "values" the first snapshot of a run is the state of the thread
\* with the input added: the messages of the earlier turns and the new question.
Growth(rec) ==
    IF rec.snap = 0 /\ History(rec.script) > 0
    THEN {History(rec.script) + 1}
    ELSE 0..MaxGrow

FirstNewFromStart(rec) == 1

\* _stream_agent_response: the first message of messages[printed_count:]
FirstNew(rec) == rec.printed + 1

\* _stream_agent_response, the for loop over messages[printed_count:], run from
\* (message i, write j) up to the next await.
RECURSIVE Continue(_, _)
Continue(rec, c) ==
    IF rec.i > rec.snap
    THEN [rec EXCEPT !.printed = rec.snap, !.pc = "flush", !.i = 0, !.j = 0]
    ELSE IF rec.j = 1 /\ c
    THEN UserCancel(rec)
    ELSE LET ops == Ops(Messages(rec)[rec.i])
             here == IF rec.j = 1
                     THEN [rec EXCEPT !.handed = Append(rec.handed, rec.i)]
                     ELSE rec
         IN  IF here.j > Len(ops)
             THEN Continue([here EXCEPT !.i = here.i + 1, !.j = 1,
                                        !.rendered = here.rendered + 1], c)
             ELSE IF c
             THEN Break(here, c, "poll", NoExc)
             ELSE IF ops[here.j] = "none"
             THEN Continue([here EXCEPT !.j = here.j + 1], c)
             ELSE BeforeWrite([here EXCEPT !.pc = "w_msg"], ops[here.j])

\* _handle_task_cancellation has returned: back in its caller.
AfterHandler(rec, c) ==
    CASE rec.hctx = "poll" -> StreamFinally([rec EXCEPT !.hctx = "none"], c, FALSE)
      [] rec.hctx = "sc" -> StreamFinally([rec EXCEPT !.hctx = "none"], c, TRUE)
      [] rec.hctx = "ra" -> [rec EXCEPT !.hctx = "none", !.pc = "retire"]

----------------------------------------------------------------------------
(* Tool-call governor: native_sql_tools and the tool call manager *)

Agents == {"a1", "a2"}
Datasources == {"d1", "d2"}
Sessions == {"default", "datasource_d1", "datasource_d2"}
GovernedTools ==
    {"sql_db_list_tables", "sql_db_schema", "sql_db_query", "sql_db_query_checker"}

\* Query texts, as sequences of tokens; " " is a run of white space.
QSelect == <<"SELECT", " ", "*", " ", "FROM", " ", "t">>
QSelectLoose == <<" ", "select", " ", " ", "*", " ", "from", " ", "t", " ">>
QOther == <<"SELECT", " ", "*", " ", "FROM", " ", "u">>
QDrop == <<"DROP", " ", "TABLE", " ", "t">>
QShow == <<"show", " ", "tables">>
NoQuery == <<"None">>

\* str.upper and str.lower on the tokens of the model
Upper(tok) ==
    CASE tok \in {"select", "SELECT"} -> "SELECT"
      [] tok \in {"from", "FROM"} -> "FROM"
      [] tok \in {"show", "SHOW"} -> "SHOW"
      [] tok \in {"tables", "TABLES"} -> "TABLES"
      [] tok \in {"t", "T"} -> "T"
      [] tok \in {"u", "U"} -> "U"
      [] OTHER -> tok

Lower(tok) ==
    CASE tok \in {"select", "SELECT"} -> "select"
      [] tok \in {"from", "FROM"} -> "from"
      [] tok \in {"show", "SHOW"} -> "show"
      [] tok \in {"tables", "TABLES", "TABLE"} -> IF tok = "TABLE" THEN "table" ELSE "tables"
      [] tok = "DROP" -> "drop"
      [] tok \in {"t", "T"} -> "t"
      [] tok \in {"u", "U"} -> "u"
      [] OTHER -> tok

NotSpace(tok) == tok # " "

\* query.strip().upper(), white space between the words left out
StripUpper(q) == LET w == SelectSeq(q, NotSpace) IN [n \in DOMAIN w |-> Upper(w[n])]

ForbiddenKeywords ==
    {"INSERT", "UPDATE", "DELETE", "DROP", "ALTER", "TRUNCATE", "CREATE"}

\* A safety check that tests for the forbidden keywords only.
SafetyCheckKeywordsOnly(q) ==
    IF \E n \in DOMAIN StripUpper(q) : StripUpper(q)[n] \in ForbiddenKeywords
    THEN "err_forbidden" ELSE "ok"

\* sql_db_query, the safety check: "ok", or the error it returns
SafetyCheck(q) ==
    LET u == StripUpper(q)
    IN  IF \E n \in DOMAIN u : u[n] \in ForbiddenKeywords THEN "err_forbidden"
        ELSE IF u = << >> \/ u[1] # "SELECT" THEN "err_not_select"
        ELSE "ok"

\* _get_session_id, c being _current_datasource
GetSessionId(c) ==
    IF c.sid # "none" THEN c.sid
    ELSE IF c.ds # "none" THEN "datasource_" \o c.ds
    ELSE "default"

\* set_native_datasource_info(datasource_id, ...) without a session_id
SetNativeDatasourceInfo(d) == [ds |-> d, sid |-> "datasource_" \o d]

\* DatasourceInfo()
NoDatasource == [ds |-> "none", sid |-> "none"]

\* Tool call manager (tool_call_manager.py): thresholds of its policy
RepeatThreshold == 2     \* the loop guard allows this many equal calls in a row
FloodCeiling == 3        \* the flood guard allows this many recent calls

\* Fingerprint of a query: case and white space normalised; None stays None.
Fingerprint(q) ==
    IF q = NoQuery THEN NoQuery
    ELSE LET w == SelectSeq(q, NotSpace) IN [n \in DOMAIN w |-> Lower(w[n])]

CallRecord(tool, success, q) == [tool |-> tool, fp |-> Fingerprint(q), success |-> success]

\* The number of records at the end of the ledger with this tool and fingerprint.
RECURSIVE TrailingRepeats(_, _, _)
TrailingRepeats(led, tool, fp) ==
    IF led = << >> THEN 0
    ELSE LET e == led[Len(led)]
         IN  IF e.tool = tool /\ e.fp = fp
             THEN 1 + TrailingRepeats(SubSeq(led, 1, Len(led) - 1), tool, fp)
             ELSE 0

Allow == [allowed |-> TRUE, reason |-> ""]
Reject(why) == [allowed |-> FALSE, reason |-> why]

\* manager.check_before_call(session_id, tool_name, query), led being the ledger
\* of the session: the loop guard, then the flood guard.
CheckBeforeCall(led, tool, q) ==
    IF TrailingRepeats(led, tool, Fingerprint(q)) >= RepeatThreshold
    THEN Reject("repeated call: reuse the previous result")
    ELSE IF Len(led) >= FloodCeiling
    THEN Reject("too many tool calls")
    ELSE Allow

\* manager.record_call(session_id, tool_name, success, query)
RecordCall(led, tool, success, q) == Append(led, CallRecord(tool, success, q))

\* A sql_db_query that leaves the statement out of its governor calls.
QueryArgOmitted(tool, q) == NoQuery

\* The query argument a tool passes to _check_tool_call and _record_tool_call.
QueryArg(tool, q) == IF tool = "sql_db_query" THEN q ELSE NoQuery

\* sql_db_query_checker: the basic checks that make it record a failure
CheckerRejects(q) ==
    LET u == StripUpper(q)
    IN  \/ u = << >>
        \/ \E n \in DOMAIN u : u[n] \in ForbiddenKeywords
        \/ u[1] # "SELECT"

\* The last invocation an agent finished.
NoFin ==
    [tool |-> "none", dec |-> "none", ret |-> "none", sid |-> "none", ds |-> "none",
     recs |-> << >>, succ |-> << >>, raised |-> FALSE]

\* The key under which calls count as equal: the tool name and, for sql_db_query,
\* the normalised text of the statement.
CallKey(tool, q) == IF tool = "sql_db_query" THEN Fingerprint(q) ELSE NoQuery

\* No invocation yet.
NoStreak == [tool |-> "none", fp |-> NoQuery, n |-> 0, qs |-> {}]

\* Locals of the tool invocation of one agent, and what is kept of the finished ones.
IdleInv ==
    [pc |-> "idle",
     bound |-> "none",      \* the data source the agent was created for
     tool |-> "none", q |-> NoQuery,
     ds |-> "none",         \* datasource_id read by _get_datasource_info
     sid |-> "none",        \* session_id used by _check_tool_call
     out |-> "none",        \* outcome of the body: "ok", "fail" or "badrows"
     recs |-> << >>,        \* the sessions _record_tool_call appended to, in order
     succ |-> << >>,        \* the success values it appended, in the same order
     calls |-> 0,           \* invocations started
     fin |-> NoFin,         \* the invocation finished last
     streak |-> NoStreak]   \* the run of equal invocations that ends with it

\* The run of equal invocations put to the governor, one longer or new; runs
\* longer than the threshold are counted as threshold + 1.  qs are the texts used.
Extend(st, tool, q) ==
    IF st.tool = tool /\ st.fp = CallKey(tool, q)
    THEN [st EXCEPT !.n = IF st.n > RepeatThreshold THEN st.n ELSE st.n + 1,
                    !.qs = st.qs \cup {q}]
    ELSE [tool |-> tool, fp |-> CallKey(tool, q), n |-> 1, qs |-> {q}]

\* The invocation returns ret to the agent (or raises, were raised true).
Return(rec, dec, ret, raised) ==
    [rec EXCEPT !.pc = "idle", !.tool = "none", !.q = NoQuery, !.ds = "none",
                !.sid = "none", !.out = "none", !.recs = << >>, !.succ = << >>,
                !.fin = [tool |-> rec.tool, dec |-> dec, ret |-> ret, sid |-> rec.sid,
                         ds |-> IF rec.out = "none" THEN "none" ELSE rec.ds,
                         recs |-> rec.recs, succ |-> rec.succ, raised |-> raised],
                !.streak = IF dec = "none" THEN rec.streak
                           ELSE Extend(rec.streak, rec.tool, rec.q)]

VetoRaises(rec, reason) == Return(rec, "reject", "none", TRUE)

\* allowed, reason = _check_tool_call(...); if not allowed: return reason
OnVeto(rec, reason) == Return(rec, "reject", reason, FALSE)

GovInit ==
    /\ cur = NoDatasource
    /\ ledger = [s \in Sessions |-> << >>]
    /\ inv = [a \in Agents |-> IdleInv]

----------------------------------------------------------------------------
(* Actions *)

Init ==
    /\ reg = [t \in TaskIds |-> NoEntry]
    /\ run = [r \in Runs |-> IdleRun]
    /\ chan = [r \in Runs |-> "open"]
    /\ log = [r \in Runs |-> << >>]
    /\ faulty = {"r1"}
    /\ last = CallsOff
    /\ asked = {}
    /\ GovInit

Cancelled(r) == IsTaskCancelled(reg, run[r].tid)

\* A step of a run is no control-plane call.
RunStep ==
    /\ last' = IF last.op = "off" THEN last ELSE NoCall
    /\ UNCHANGED govvars

\* The step of run r ends in rec; "retire" is the finally block of run_agent.
Finish(r, rec) ==
    IF rec.pc = "retire"
    THEN /\ run' = [run EXCEPT ![r] = [rec EXCEPT !.pc = "done",
                                         !.escaped = RetireRaises(reg, rec.tid)]]
         /\ reg' = Retire(reg, rec.tid)
         /\ asked' = asked \ {r}
    ELSE /\ run' = [run EXCEPT ![r] = rec]
         /\ reg' = reg
         /\ asked' = asked

\* The states the channel can be found in by a write or flush of run r: the client
\* may have left since the previous write (a fault), and never comes back.
ChanNow(r) ==
    {chan[r]} \cup (IF chan[r] = "open" /\ r \in faulty THEN {"closed"} ELSE {})

\* The write or flush found the channel in state ch.
Observe(r, ch) ==
    /\ chan' = [chan EXCEPT ![r] = ch]
    /\ faulty' = faulty
    /\ RunStep

\* The identities a run can have: the names are interchangeable, so the first
\* run's is fixed.
IdentitiesOf(r) == IF r = "r1" THEN {"t1"} ELSE TaskIds

Emit(r, k, delivered) == log' = [log EXCEPT ![r] = Append(log[r], Frame(k, delivered))]

EmitError(r, k, delivered, e) ==
    log' = [log EXCEPT ![r] = Append(log[r], ErrorFrame(k, delivered, e))]

\* run_agent called without a data-source id: one direct response.write, then return.
StartNoDatasource(r) ==
    /\ run[r].pc = "idle"
    /\ \E ch \in ChanNow(r) :
          /\ Observe(r, ch)
          /\ Emit(r, "ds_err", ch = "open")
          /\ run' = [run EXCEPT ![r] = [IdleRun EXCEPT !.pc = "done",
                                                       !.escaped = (ch # "open")]]
    /\ UNCHANGED <<reg, asked>>

\* run_agent up to the first await of agent.astream: the entry is registered, the
\* agent is created, _stream_agent_response starts.
Start(r) ==
    /\ run[r].pc = "idle"
    /\ \E t \in IdentitiesOf(r), s \in ScriptsFor(r, faulty) :
          /\ run' = [run EXCEPT ![r] = NewRun(t, s)]
          /\ reg' = Register(reg, t, r)
    /\ UNCHANGED <<chan, log, faulty, asked>>
    /\ RunStep

\* run_agent where _create_sql_deep_agent raises an exception e of excs: except
\* Exception, then finally.
CreateFails(r, excs) ==
    /\ run[r].pc = "idle"
    /\ \E t \in IdentitiesOf(r), e \in excs :
          LET rec == [IdleRun EXCEPT !.tid = t, !.term = "failed", !.cause = "create",
                                     !.exc = e]
          IN  IF IsConnectionError(e)
              THEN /\ run' = [run EXCEPT ![r] = [rec EXCEPT !.pc = "done"]]
                   /\ reg' = Retire(Register(reg, t, r), t)
              ELSE /\ run' = [run EXCEPT ![r] = [rec EXCEPT !.pc = "w_raerr"]]
                   /\ reg' = Register(reg, t, r)
    /\ RunStep
    /\ UNCHANGED <<chan, log, faulty, asked>>

StartCreateFails(r) == r \in faulty /\ CreateFails(r, CreateExcs)

\* run_agent, except Exception: _safe_write of the error message, then finally.
AgentErrorWrite(r) ==
    /\ run[r].pc = "w_raerr"
    /\ \E ch \in ChanNow(r) :
          /\ Observe(r, ch)
          /\ EmitError(r, "agent_err", ch = "open", run[r].exc)
          /\ Finish(r, [run[r] EXCEPT !.pc = "retire"])

\* agent.astream yields the next snapshot: g more messages than the previous one.
Chunk(r) ==
    /\ run[r].pc = "astream"
    /\ \E g \in Growth(run[r]) :
          /\ run[r].snap + g <= Len(Scripts[run[r].script])
          /\ LET rec == [run[r] EXCEPT !.snap = run[r].snap + g]
             IN  Finish(r, IF Cancelled(r) THEN UserCancel(rec)
                           ELSE IF rec.snap > rec.printed
                           THEN Continue([rec EXCEPT !.i = FirstNew(rec), !.j = 1],
                                         FALSE)
                           ELSE rec)
    /\ UNCHANGED <<chan, log, faulty>>
    /\ RunStep

\* agent.astream is exhausted: the loop ends normally.
StreamEnd(r) ==
    /\ run[r].pc = "astream"
    /\ Finish(r, StreamFinally([run[r] EXCEPT !.term = "completed"], Cancelled(r), FALSE))
    /\ UNCHANGED <<chan, log, faulty>>
    /\ RunStep

\* agent.astream raises an exception e of excs.
RaiseFromRuntime(r, excs) ==
    /\ run[r].pc = "astream"
    /\ \E e \in excs : Finish(r, RaiseInStream(run[r], e, Cancelled(r), "runtime"))
    /\ RunStep
    /\ UNCHANGED <<chan, log, faulty>>

RuntimeRaise(r) == r \in faulty /\ RaiseFromRuntime(r, RuntimeExcs)

\* _print_message: the pending _safe_write returns, and the loop goes on.
PrintWrite(r) ==
    /\ run[r].pc = "w_msg"
    /\ LET rec == run[r]
           k == Ops(Messages(rec)[rec.i])[rec.j]
       IN  \E ch \in ChanNow(r), e \in WriteExcs :
             /\ Observe(r, ch)
             /\ Emit(r, k, ch = "open")
             /\ Finish(r, CASE SafeWrite(ch, e) = "ok" ->
                                  Continue(AfterWrite([rec EXCEPT !.j = rec.j + 1], k),
                                           Cancelled(r))
                             [] SafeWrite(ch, e) = "false" ->
                                  Break(rec, Cancelled(r), "write", e)
                             [] SafeWrite(ch, e) = "raise" ->
                                  RaiseInStream(rec, e, Cancelled(r), "write"))

\* _stream_agent_response: response.flush() after a batch, then asyncio.sleep(0).
Flush(r) ==
    /\ run[r].pc = "flush"
    /\ \E ch \in ChanNow(r), e \in WriteExcs :
          /\ Observe(r, ch)
          /\ Finish(r, IF ch = "open" THEN [run[r] EXCEPT !.pc = "astream"]
                       ELSE RaiseInStream(run[r], e, Cancelled(r), "write"))
    /\ UNCHANGED log

\* _stream_agent_response, except Exception: _safe_write of the error message.
ErrorWrite(r) ==
    /\ run[r].pc = "w_err"
    /\ \E ch \in ChanNow(r), e \in WriteExcs :
          /\ Observe(r, ch)
          /\ EmitError(r, run[r].errk, ch = "open", run[r].exc)
          /\ Finish(r, IF SafeWrite(ch, e) = "raise"
                       THEN StreamFinally([run[r] EXCEPT !.errk = "none"], Cancelled(r), FALSE)
                       ELSE [run[r] EXCEPT !.pc = "w_errend", !.errk = "none"])

\* _stream_agent_response, except Exception: _safe_write of the end event.
ErrorEnd(r) ==
    /\ run[r].pc = "w_errend"
    /\ \E ch \in ChanNow(r) :
          /\ Observe(r, ch)
          /\ Emit(r, "end", ch = "open")
          /\ Finish(r, StreamFinally(run[r], Cancelled(r), FALSE))

\* _handle_task_cancellation: _safe_write of the notice.
CancelNotice(r) ==
    /\ run[r].pc = "w_cinfo"
    /\ \E ch \in ChanNow(r), e \in WriteExcs :
          /\ Observe(r, ch)
          /\ Emit(r, IF run[r].isuser THEN "cancel_notice" ELSE "disc_notice",
                  ch = "open")
          /\ Finish(r, IF SafeWrite(ch, e) = "raise"
                       THEN AfterHandler(run[r], Cancelled(r))
                       ELSE [run[r] EXCEPT !.pc = "w_cend"])

\* _handle_task_cancellation: _safe_write of the end event, then return.
CancelEnd(r) ==
    /\ run[r].pc = "w_cend"
    /\ \E ch \in ChanNow(r) :
          /\ Observe(r, ch)
          /\ Emit(r, "end", ch = "open")
          /\ Finish(r, AfterHandler(run[r], Cancelled(r)))

\* _stream_agent_response, finally: add_user_record returns (or raises, which is logged).
SaveRecord(r) ==
    /\ run[r].pc = "save"
    /\ Finish(r, AfterStream(run[r], Cancelled(r), run[r].raising))
    /\ UNCHANGED <<chan, log, faulty>>
    /\ RunStep

\* asyncio.CancelledError is thrown into the coroutine at the await it is suspended on.
Kill(r) ==
    /\ run[r].pc \in {"astream", "w_msg", "flush", "save"}
    /\ ~run[r].killed
    /\ r \in faulty
    /\ LET rec == [run[r] EXCEPT !.killed = TRUE, !.i = 0, !.j = 0,
                                 !.cause = IF run[r].cause = "none" THEN "killed"
                                           ELSE run[r].cause,
                                 !.term = IF run[r].term = "none" THEN "killed"
                                          ELSE run[r].term]
       IN  Finish(r, IF run[r].pc = "save"
                     THEN AfterStream(rec, Cancelled(r), TRUE)
                     ELSE [rec EXCEPT !.pc = "w_cinfo", !.hctx = "sc",
                                      !.isuser = Cancelled(r)])
    /\ RunStep
    /\ UNCHANGED <<chan, log, faulty>>

\* cancel_task(t), called by the control plane.
CancelTask(t) ==
    /\ reg' = CancelUpdate(reg, t)
    /\ last' = IF last.op = "off" THEN last
               ELSE [op |-> "cancel_task", tid |-> t, ret |-> CancelResult(reg, t)]
    /\ asked' = asked \cup {r \in Runs : /\ run[r].pc \notin {"idle", "done"}
                                         /\ run[r].tid = t
                                         /\ reg[t].present /\ reg[t].owner = r}
    /\ UNCHANGED <<run, chan, log, faulty>>
    /\ UNCHANGED govvars

Next ==
    \/ \E r \in Runs :
          \/ StartNoDatasource(r) \/ Start(r) \/ StartCreateFails(r)
          \/ AgentErrorWrite(r) \/ Chunk(r) \/ StreamEnd(r) \/ RuntimeRaise(r)
          \/ PrintWrite(r) \/ Flush(r) \/ ErrorWrite(r) \/ ErrorEnd(r)
          \/ CancelNotice(r) \/ CancelEnd(r) \/ SaveRecord(r) \/ Kill(r)
    \/ \E t \in TaskIds : CancelTask(t)

Spec == Init /\ [][Next]_vars

\* The control plane observed: every cancel_task call is recorded with its result,
\* and the channel and the agent runtime are healthy.
InitCtl ==
    /\ reg = [t \in TaskIds |-> NoEntry]
    /\ run = [r \in Runs |-> IdleRun]
    /\ chan = [r \in Runs |-> "open"]
    /\ log = [r \in Runs |-> << >>]
    /\ faulty = {}
    /\ last = NoCall
    /\ asked = {}
    /\ GovInit

NextCtl ==
    \/ \E r \in Runs :
          \/ StartNoDatasource(r) \/ Start(r) \/ Chunk(r) \/ StreamEnd(r)
          \/ PrintWrite(r) \/ Flush(r) \/ CancelNotice(r) \/ CancelEnd(r)
          \/ SaveRecord(r)
    \/ \E t \in TaskIds : CancelTask(t)

SpecCtl == InitCtl /\ [][NextCtl]_vars

\* The error handlers observed: one run on a healthy channel, whose agent
\* creation or agent runtime can raise any exception.
RuntimeRaiseAny(r) == RaiseFromRuntime(r, AnyExcs)

CreateFailsAny(r) == CreateFails(r, AnyExcs)

InitCls ==
    /\ reg = [t \in TaskIds |-> NoEntry]
    /\ run = [r \in Runs |-> IdleRun]
    /\ chan = [r \in Runs |-> "open"]
    /\ log = [r \in Runs |-> << >>]
    /\ faulty = {}
    /\ last = CallsOff
    /\ asked = {}
    /\ GovInit

NextCls ==
    \E r \in {"r1"} :
        \/ Start(r) \/ CreateFailsAny(r) \/ AgentErrorWrite(r)
        \/ Chunk(r) \/ StreamEnd(r) \/ RuntimeRaiseAny(r)
        \/ PrintWrite(r) \/ Flush(r) \/ ErrorWrite(r) \/ ErrorEnd(r)
        \/ SaveRecord(r)

SpecCls == InitCls /\ [][NextCls]_vars

\* Progress: one run, exposed to every fault and to cancel_task.  Once run_agent
\* has been called the event loop resumes the coroutine whenever the await it is
\* suspended on has returned or raised: the agent runtime yields finitely many
\* snapshots, and every write, flush and add_user_record returns or raises.
StepsOf(r) ==
    \/ AgentErrorWrite(r) \/ Chunk(r) \/ StreamEnd(r) \/ RuntimeRaise(r)
    \/ PrintWrite(r) \/ Flush(r) \/ ErrorWrite(r) \/ ErrorEnd(r)
    \/ CancelNotice(r) \/ CancelEnd(r) \/ SaveRecord(r)

NextLive ==
    \/ \E r \in {"r1"} :
          \/ StartNoDatasource(r) \/ Start(r) \/ StartCreateFails(r) \/ Kill(r)
          \/ StepsOf(r)
    \/ \E t \in TaskIds : CancelTask(t)

SpecLive == Init /\ [][NextLive]_vars /\ \A r \in Runs : WF_vars(StepsOf(r))

----------------------------------------------------------------------------
(* The SQL tools under the governor *)

\* The data sources an agent can be created for, the tools it calls and the
\* queries it passes.  The first agent repeats the query tool; the second makes
\* one call of any tool and is there for what it does to the shared binding and
\* ledgers.
DatasourcesOf(a) == IF a = "a1" THEN {"d1"} ELSE Datasources
ToolsOf(a) == IF a = "a1" THEN {"sql_db_query"} ELSE GovernedTools
CallsOf(a) == IF a = "a1" THEN MaxCalls ELSE 1
QueriesOf(a, tool) ==
    CASE tool = "sql_db_query" ->
            IF a = "a1" THEN {QSelect, QSelectLoose, QOther, QDrop} ELSE {QOther, QShow}
      [] tool = "sql_db_query_checker" -> {QSelect, QShow}
      [] OTHER -> {NoQuery}

\* _create_sql_deep_agent for a native data source: set_native_datasource_info
Bind(a) ==
    /\ inv[a].bound = "none"
    /\ \E d \in DatasourcesOf(a) :
          /\ cur' = SetNativeDatasourceInfo(d)
          /\ inv' = [inv EXCEPT ![a].bound = d]
    /\ UNCHANGED ledger
    /\ UNCHANGED pipevars

\* A tool is invoked: up to its _check_tool_call.  sql_db_query_checker has no
\* data-source test; sql_db_query tests the statement before the governor is asked.
ToolEnter(a) ==
    /\ inv[a].pc = "idle" /\ inv[a].bound # "none"
    /\ inv[a].calls < CallsOf(a)
    /\ \E tool \in ToolsOf(a) : \E q \in QueriesOf(a, tool) :
          LET rec == [inv[a] EXCEPT !.tool = tool, !.q = q, !.ds = cur.ds,
                                    !.calls = inv[a].calls + 1]
          IN  inv' = [inv EXCEPT ![a] =
                 IF tool # "sql_db_query_checker" /\ cur.ds = "none"
                 THEN Return(rec, "none", "err_no_datasource", FALSE)
                 ELSE IF tool = "sql_db_query" /\ SafetyCheck(q) # "ok"
                 THEN Return(rec, "none", SafetyCheck(q), FALSE)
                 ELSE [rec EXCEPT !.pc = "check"]]
    /\ UNCHANGED <<cur, ledger>>
    /\ UNCHANGED pipevars

\* _check_tool_call: a vetoed call returns the reason.
ToolCheck(a) ==
    /\ inv[a].pc = "check"
    /\ LET sid == GetSessionId(cur)
           d == CheckBeforeCall(ledger[sid], inv[a].tool, QueryArg(inv[a].tool, inv[a].q))
           rec == [inv[a] EXCEPT !.sid = sid]
       IN  inv' = [inv EXCEPT ![a] =
              IF d.allowed THEN [rec EXCEPT !.pc = "exec"]
              ELSE OnVeto(rec, d.reason)]
    /\ UNCHANGED <<cur, ledger>>
    /\ UNCHANGED pipevars

\* What the body of a tool can come to.  DatasourceConnectionUtil.execute_query
\* returns rows or raises; "badrows" are rows the table formatting of
\* sql_db_query raises on (a row without keys() or get()).  The second agent is
\* the one whose data source returns such rows.
OutcomesOf(a, tool, q) ==
    CASE tool = "sql_db_query_checker" -> {IF CheckerRejects(q) THEN "fail" ELSE "ok"}
      [] tool = "sql_db_query" /\ a = "a2" -> {"ok", "fail", "badrows"}
      [] OTHER -> {"ok", "fail"}

\* The body of the tool: the query is executed, the metadata is read, or the
\* statement is checked.
ToolExecute(a) ==
    /\ inv[a].pc = "exec"
    /\ \E o \in OutcomesOf(a, inv[a].tool, inv[a].q) :
          inv' = [inv EXCEPT ![a].pc = "record", ![a].out = o]
    /\ UNCHANGED <<cur, ledger>>
    /\ UNCHANGED pipevars

\* The success values _record_tool_call is called with, in order: True after the
\* body returned, False in the except clause, which also catches what the
\* formatting of the rows raises after True was recorded.
SuccessValues(out) ==
    CASE out = "ok" -> << TRUE >>
      [] out = "fail" -> << FALSE >>
      [] out = "badrows" -> << TRUE, FALSE >>

\* led with one Call Record appended for each success value of flags
RECURSIVE RecordAll(_, _, _, _)
RecordAll(led, tool, flags, q) ==
    IF flags = << >> THEN led
    ELSE RecordAll(RecordCall(led, tool, Head(flags), q), tool, Tail(flags), q)

\* _record_tool_call, then the result is returned.
ToolRecord(a) ==
    /\ inv[a].pc = "record"
    /\ LET sid == GetSessionId(cur)
           flags == SuccessValues(inv[a].out)
           rec == [inv[a] EXCEPT !.recs = inv[a].recs \o [n \in DOMAIN flags |-> sid],
                                 !.succ = inv[a].succ \o flags]
       IN  /\ ledger' = [ledger EXCEPT ![sid] =
                           RecordAll(ledger[sid], rec.tool, flags,
                                     QueryArg(rec.tool, rec.q))]
           /\ inv' = [inv EXCEPT ![a] =
                  Return(rec, "allow", IF rec.out = "ok" THEN "ok" ELSE "fail", FALSE)]
    /\ UNCHANGED cur
    /\ UNCHANGED pipevars

NextGov ==
    \E a \in Agents :
        Bind(a) \/ ToolEnter(a) \/ ToolCheck(a) \/ ToolExecute(a) \/ ToolRecord(a)

InitGov ==
    /\ reg = [t \in TaskIds |-> NoEntry]
    /\ run = [r \in Runs |-> IdleRun]
    /\ chan = [r \in Runs |-> "open"]
    /\ log = [r \in Runs |-> << >>]
    /\ faulty = {}
    /\ last = CallsOff
    /\ asked = {}
    /\ GovInit

SpecGov == InitGov /\ [][NextGov]_vars

----------------------------------------------------------------------------
(* Vocabulary of the properties *)

Delivered(f) == f.ok

\* The frames the client received, in order.
Frames(r) == SelectSeq(log[r], Delivered)

\* The run is between its registration and its retirement.
Live(r) == run[r].pc \notin {"idle", "done"}

\* The user-visible messages that report a failure of the run.
FailureKinds == {"timeout_err", "other_err", "agent_err"}

Count(f, kinds) == Cardinality({n \in DOMAIN f : f[n].k \in kinds})

\* 1, 2, ..., n: every index once, in transcript order.
InOrder(h) == \A n \in DOMAIN h : h[n] = n

\* TRANSPORT, as the error classifier is specified: by exception category or by
\* a connection keyword in the message.
TransportFailure(e) == e.ty \in ConnectionErrorTypes \/ e.connkw

\* No cancellation and no failure of the channel has touched the run.
Undisturbed(rec) ==
    \/ rec.term \in {"none", "completed"}
    \/ rec.term = "failed" /\ rec.cause = "runtime"

----------------------------------------------------------------------------
(* C1: with snapshots that extend one another, printed_count never decreases, the
   messages handed to _print_message are numbered 1, 2, 3, ... (each once, in
   transcript order), and as long as no cancellation and no channel failure has
   occurred every message of the snapshots processed so far has been handed over. *)
C1_CursorMonotone ==
    [][\A r \in Runs :
          /\ run'[r].printed >= run[r].printed
          /\ InOrder(run'[r].handed)
          /\ Undisturbed(run'[r]) =>
                IF run'[r].pc = "w_msg"
                THEN Len(run'[r].handed) = run'[r].i
                ELSE /\ Len(run'[r].handed) = run'[r].snap
                     /\ run'[r].printed = run'[r].snap]_vars

C1_Witness ==
    /\ run["r1"].pc = "done" /\ run["r1"].term = "completed"
    /\ run["r1"].handed = <<1, 2, 3, 4>> /\ run["r1"].printed = 4

----------------------------------------------------------------------------
(* C2: in a snapshot with N new messages, when the cancellation flag is set before
   message k (it is set while a write of message k-1 is in flight, and k <= N),
   message k-1 is rendered completely, message k is not handed to rendering, and
   the run goes on to send the user-cancellation notice and then the end event.
   Stated for a healthy channel and a coroutine that is not cancelled. *)
C2_CancelBeforeMessageK ==
    [][\A r \in Runs :
          /\ ( /\ run[r].pc = "w_msg" /\ Cancelled(r)
               /\ run[r].i < run[r].snap
               /\ run'[r] # run[r] /\ ~run'[r].killed /\ chan'[r] = "open" )
             => /\ run'[r].pc = "w_cinfo" /\ run'[r].hctx = "poll" /\ run'[r].isuser
                /\ run[r].j = Len(Ops(Messages(run[r])[run[r].i]))
                /\ run'[r].handed = run[r].handed
          /\ ( /\ run[r].pc = "w_cinfo" /\ run[r].hctx = "poll"
               /\ run'[r] # run[r] /\ chan'[r] = "open" )
             => /\ log'[r] = Append(log[r], Frame("cancel_notice", TRUE))
                /\ run'[r].pc = "w_cend"
          /\ ( /\ run[r].pc = "w_cend" /\ run[r].hctx = "poll"
               /\ run'[r] # run[r] /\ chan'[r] = "open" )
             => log'[r] = Append(log[r], Frame("end", TRUE))]_vars

(* C3: when a run that wrote at least one frame has terminated, in whatever way,
   the last frame the client received has messageType "end". *)
C3_LastFrameIsEnd ==
    \A r \in Runs :
        (run[r].pc = "done" /\ Frames(r) # << >>)
            => Frames(r)[Len(Frames(r))].mt = "end"

(* C4: within one run at most one end event is written and nothing is written
   after it. *)
C4_NothingAfterEnd ==
    \A r \in Runs :
        \A n \in DOMAIN Frames(r) :
            Frames(r)[n].k = "end" => n = Len(Frames(r))

(* C5: when agent.astream raised while producing a snapshot, the run has sent, by
   the time it terminates, exactly one failure message followed by exactly one end
   event.  Stated for a healthy channel and a coroutine that is not cancelled. *)
C5_OneErrorThenEnd ==
    \A r \in Runs :
        ( /\ run[r].pc = "done" /\ run[r].cause = "runtime"
          /\ chan[r] = "open" /\ ~run[r].killed )
            => LET f == Frames(r)
               IN  /\ Count(f, FailureKinds) = 1
                   /\ Count(f, {"end"}) = 1
                   /\ Len(f) >= 2
                   /\ f[Len(f) - 1].k \in FailureKinds
                   /\ f[Len(f)].k = "end"

----------------------------------------------------------------------------
(* C6: when a write or flush of the rendering loop failed with a transport
   failure, the run has set connection_closed, is out of the streaming loop for
   good (it takes no further snapshot and is not in the error handler), its
   terminal state is disconnected unless its coroutine is cancelled afterwards,
   and no failure message was written or attempted for it. *)
C6_TransportSilence ==
    \A r \in Runs :
        (run[r].cause = "write" /\ TransportFailure(run[r].exc))
            => /\ run[r].cc
               /\ run[r].pc \in {"save", "w_cinfo", "w_cend", "done"}
               /\ ~run[r].killed => run[r].term = "disconnected"
               /\ Count(log[r], FailureKinds) = 0

C6_Witness ==
    /\ run["r1"].pc = "done" /\ run["r1"].cause = "write"
    /\ run["r1"].term = "disconnected"
    /\ TransportFailure(run["r1"].exc) /\ run["r1"].cc
    /\ Len(Frames("r1")) >= 1 /\ ~log["r1"][Len(log["r1"])].ok

(* C7: from its registration to its termination a run's task_id is registered:
   it is in get_running_tasks() (and cancel_task(task_id) would return true),
   whatever other runs of the same identity do. *)
C7_EntryWhileLive ==
    \A r \in Runs :
        Live(r) => /\ run[r].tid \in GetRunningTasks(reg)
                   /\ CancelResult(reg, run[r].tid)

\* A newer run of the same identity has replaced the entry of run r, which is live.
Superseded(r) ==
    /\ Live(r)
    /\ \E q \in Runs \ {r} :
          /\ Live(q) /\ run[q].tid = run[r].tid
          /\ reg[run[r].tid].present /\ reg[run[r].tid].owner = q

(* C8: a run that was superseded by a new run of the same task_id observes
   cancellation at its next polling point, the top of the next snapshot, and
   goes to the cancellation handler instead of rendering. *)
C8_SupersededObservesCancel ==
    [][\A r \in Runs :
          ( /\ Superseded(r) /\ run[r].pc = "astream"
            /\ run'[r].snap > run[r].snap )
              => /\ run'[r].pc = "w_cinfo"
                 /\ run'[r].handed = run[r].handed]_vars

(* C9: once cancel_task(task_id) has returned true for a live run (it flagged the
   entry that run registered), the run starts no further write of transcript
   content: the write in flight may complete, nothing else is rendered. *)
C9_NoRenderAfterCancel ==
    [][\A r \in Runs :
          (r \in asked /\ run'[r].pc = "w_msg")
              => /\ run[r].pc = "w_msg"
                 /\ run'[r].i = run[r].i /\ run'[r].j = run[r].j]_vars

(* C10: cancel_task(task_id) returns true exactly when task_id is registered; then
   it sets the cancelled flag of that entry and changes nothing else of it; when
   task_id is not registered it creates no entry; the entries of all other
   task_ids are unchanged. *)
C10_CancelFrame ==
    [][last'.op = "cancel_task" =>
          LET t == last'.tid
          IN  /\ last'.ret = (t \in GetRunningTasks(reg))
              /\ reg[t].present => reg'[t] = [reg[t] EXCEPT !.cancelled = TRUE]
              /\ ~reg[t].present => reg'[t] = reg[t]
              /\ \A u \in TaskIds \ {t} : reg'[u] = reg[u]
              /\ run' = run]_vars

C10_Witness ==
    /\ last.op = "cancel_task" /\ last.ret
    /\ IsTaskCancelled(reg, last.tid)
    /\ \E u \in TaskIds \ {last.tid} : reg[u].present /\ ~reg[u].cancelled

----------------------------------------------------------------------------
\* Run r has executed the finally block of run_agent.
Retired(r) == run[r].pc = "done" /\ run[r].tid \in TaskIds

(* C11: the termination path can run twice for one task_id: the finally block of
   run_agent raises nothing even when the entry is already gone, retiring a
   retired task_id changes nothing, and once a run has retired, its task_id is
   not in get_running_tasks() unless another run of the same identity is live. *)
C11_RetireIdempotent ==
    \A r \in Runs :
        Retired(r) =>
            /\ ~run[r].escaped
            /\ \A t \in TaskIds :
                  /\ Retire(Retire(reg, t), t) = Retire(reg, t)
                  /\ ~RetireRaises(Retire(reg, t), t)
                  /\ t \notin GetRunningTasks(Retire(reg, t))
            /\ (\A q \in Runs \ {r} : ~(Live(q) /\ run[q].tid = run[r].tid))
                  => run[r].tid \notin GetRunningTasks(reg)

\* Both runs had the same task_id and both have gone through the termination path.
C11_Witness ==
    /\ \A r \in Runs : Retired(r) /\ run[r].tid = "t1" /\ ~run[r].escaped
    /\ run["r1"].term = "completed" /\ run["r2"].term = "completed"
    /\ "t1" \notin GetRunningTasks(reg)

(* C12: a run that registered an entry has removed it when run_agent returns,
   whichever way it ended (normal completion, user cancellation, CancelledError,
   transport failure, runtime exception, failure while creating the agent): no
   entry of the registry was created by a run that has returned. *)
C12_NoEntryOutlivesRun ==
    \A r \in Runs :
        run[r].pc = "done" =>
            \A t \in GetRunningTasks(reg) : reg[t].owner # r

\* One run ended by CancelledError, the other by user cancellation; both entries are gone.
C12_Witness ==
    /\ Retired("r1") /\ run["r1"].term = "killed"
    /\ Retired("r2") /\ run["r2"].term = "cancelled" /\ run["r2"].tid = "t2"
    /\ GetRunningTasks(reg) = {}

\* The client received the notice of a cancellation by the user from run r.
UserCancelNotified(r) == \E n \in DOMAIN Frames(r) : Frames(r)[n].k = "cancel_notice"

(* C13: a run that emitted the user-cancellation notice never calls
   add_user_record, also when another run of the same identity starts or ends
   while the cancelled run is finishing.  Stated for a coroutine that is not
   cancelled by asyncio. *)
C13_NoRecordAfterUserCancel ==
    \A r \in Runs :
        (UserCancelNotified(r) /\ ~run[r].killed) => run[r].saved = 0

\* Run r attempted no cancellation notice of either kind.
NoNotice(r) == \A n \in DOMAIN log[r] : log[r][n].k \notin {"cancel_notice", "disc_notice"}

(* C14: a run that ended by exhaustion of agent.astream or by an exception of the
   agent runtime, and emitted no cancellation notice, has called add_user_record
   exactly once when it retires.  Stated for a coroutine that is not cancelled by
   asyncio. *)
C14_RecordOnCompletion ==
    \A r \in Runs :
        ( /\ Retired(r) /\ ~run[r].killed /\ NoNotice(r)
          /\ \/ run[r].term = "completed"
             \/ run[r].term = "failed" /\ run[r].cause = "runtime" )
            => run[r].saved = 1

\* The frames that render transcript content.
TranscriptKinds == {"human", "agent", "toolcall", "result_ok", "result_fail"}

IsTranscript(f) == f.k \in TranscriptKinds

\* The transcript blocks the client received from run r, in delivery order.
DeliveredBlocks(r) ==
    LET f == SelectSeq(Frames(r), IsTranscript) IN [n \in DOMAIN f |-> f[n].k]

(* C15: the list of blocks a run hands to add_user_record is exactly the sequence
   of transcript blocks that were written to the output channel successfully, in
   delivery order. *)
C15_RecordIsDelivered ==
    \A r \in Runs : run[r].saved > 0 => run[r].t02 = DeliveredBlocks(r)

(* C16: no connection-class exception of response.write or response.flush leaves
   run_agent, for any write of the run, the error frame for a missing data-source
   id included. *)
C16_NoTransportEscape ==
    \A r \in Runs : ~run[r].escaped

\* The kinds of the frames the client received from run r, in order.
Kinds(r) == [n \in DOMAIN Frames(r) |-> Frames(r)[n].k]

(* C17: a run over the transcript human, agent text, schema tool call, schema tool
   result, agent text (delivered in snapshots such as 1, 3, 4, 5 messages long),
   with no cancellation and a healthy channel, has emitted when it returns: the
   quoted human block, the agent block, the tool-call banner, the tool-result
   banner, the agent block and the end event, in this order, and its
   printed_count is 5. *)
C17_EndToEnd ==
    \A r \in Runs :
        ( /\ Retired(r) /\ run[r].script = 4 /\ run[r].snap = 5
          /\ run[r].term = "completed" /\ NoNotice(r) /\ chan[r] = "open" )
            => /\ run[r].printed = 5
               /\ Kinds(r) = <<"human", "agent", "toolcall", "result_ok", "agent", "end">>

----------------------------------------------------------------------------
(* Properties of the tool-call governor *)

\* Agent a is the only one that was created: the binding and the ledgers are its own.
Alone(a) == \A b \in Agents \ {a} : inv[b].bound = "none"

\* The number of equal invocations put to the governor right before the pending one.
EqualBefore(a) ==
    LET st == inv[a].streak
    IN  IF st.tool = inv[a].tool /\ st.fp = CallKey(inv[a].tool, inv[a].q)
        THEN st.n ELSE 0

RepeatReason == Reject("repeated call: reuse the previous result").reason

(* C18: within one session, when the governor is asked about a call that follows
   n equal calls in a row (same tool name, query text equal after case and white
   space normalisation), it allows the call when n is below the threshold (and the
   flood ceiling is not reached) and rejects it, with a non-empty reason that
   mentions the repetition, when n has reached the threshold: with threshold 2,
   allow, allow, reject. *)
C18_LoopGuard ==
    [][\A a \in Agents :
          (Alone(a) /\ inv[a].pc = "check" /\ inv'[a].pc # "check")
              => /\ EqualBefore(a) >= RepeatThreshold
                      => /\ inv'[a].pc = "idle" /\ inv'[a].fin.dec = "reject"
                         /\ inv'[a].fin.ret = RepeatReason /\ RepeatReason # ""
                         /\ ~inv'[a].fin.raised /\ ledger' = ledger
                 /\ ( /\ EqualBefore(a) < RepeatThreshold
                      /\ Len(ledger[GetSessionId(cur)]) < FloodCeiling )
                      => inv'[a].pc = "exec"]_vars

\* Three sql_db_query calls in a row with texts that differ in case and white
\* space only: two were executed and recorded, the third was rejected.
C18_Witness ==
    /\ Alone("a1") /\ inv["a1"].pc = "idle" /\ inv["a1"].calls = 3
    /\ inv["a1"].streak.n = 3 /\ inv["a1"].streak.tool = "sql_db_query"
    /\ inv["a1"].streak.qs = {QSelect, QSelectLoose}
    /\ inv["a1"].fin.dec = "reject" /\ inv["a1"].fin.ret = RepeatReason
    /\ Len(ledger["datasource_d1"]) = 2

\* An invocation of agent a has returned.
Returned(a) == inv[a].pc = "idle" /\ inv[a].calls > 0

(* C19: every invocation of a governed tool appends exactly one Call Record to
   the session ledger, whether the call succeeded or failed: never none and
   never two for one invocation. *)
C19_OneRecordPerInvocation ==
    \A a \in Agents : Returned(a) => Len(inv[a].fin.recs) = 1

\* What the governor answers to the call agent a is about to put to it.
Decision(a) ==
    CheckBeforeCall(ledger[GetSessionId(cur)], inv[a].tool,
                    QueryArg(inv[a].tool, inv[a].q))

(* C20: a rejection by the governor is an ordinary outcome of the tool: the
   invocation returns the reason of the rejection as its string result, raises
   nothing and records nothing, and the agent goes on to its next step with
   the calls it has left. *)
C20_RejectionIsOutcome ==
    [][\A a \in Agents :
          (inv[a].pc = "check" /\ inv'[a] # inv[a] /\ ~Decision(a).allowed)
              => /\ inv'[a].pc = "idle"
                 /\ inv'[a].fin.dec = "reject"
                 /\ inv'[a].fin.ret = Decision(a).reason
                 /\ inv'[a].fin.ret \notin {"", "none"}
                 /\ ~inv'[a].fin.raised
                 /\ inv'[a].fin.recs = << >> /\ ledger' = ledger
                 /\ inv'[a].calls = inv[a].calls
                 /\ inv'[a].bound = inv[a].bound]_vars

\* The invocation finished last was rejected by the governor, and the agent is
\* executing the next one, which the governor allowed.
C20_Witness ==
    /\ inv["a1"].fin.dec = "reject" /\ ~inv["a1"].fin.raised
    /\ inv["a1"].fin.ret = RepeatReason
    /\ inv["a1"].pc = "exec" /\ inv["a1"].calls = 3

\* The session of the data source agent a was created for.
SessionOf(a) == SetNativeDatasourceInfo(inv[a].bound).sid

(* C21: a tool call of an agent created for data source D is checked against the
   ledger of D's session, recorded in that ledger and executed against D, also
   when an agent for another data source is created or runs meanwhile. *)
C21_SessionIsolation ==
    \A a \in Agents :
        (Returned(a) /\ inv[a].fin.dec # "none")
            => /\ inv[a].fin.sid = SessionOf(a)
               /\ \A n \in DOMAIN inv[a].fin.recs : inv[a].fin.recs[n] = SessionOf(a)
               /\ inv[a].fin.ds \in {"none", inv[a].bound}

----------------------------------------------------------------------------
\* The step is taken on behalf of a task other than that of run q: a step of a
\* run with another task_id, or a cancel_task of another task_id that found its
\* entry.
StepOfOtherTask(q) ==
    \/ \E r \in Runs \ {q} :
          /\ run'[r] # run[r]
          /\ run'[r].tid # run[q].tid
    \/ /\ run' = run
       /\ \E t \in TaskIds \ {run[q].tid} : reg'[t] # reg[t]

(* C22: tasks of different identities are independent: a step of task t1 (a
   write that fails, a runtime failure, its cancellation, its retirement) leaves
   the registry entry and the cancelled flag of a live task t2 as they are, and
   leaves t2's run, its channel and the frames it has written untouched; the
   messages of t2 are handed to rendering in transcript order. *)
C22_TasksIndependent ==
    [][\A q \in Runs :
          (Live(q) /\ StepOfOtherTask(q))
              => /\ reg'[run[q].tid] = reg[run[q].tid]
                 /\ run'[q] = run[q]
                 /\ log'[q] = log[q]
                 /\ chan'[q] = chan[q]
                 /\ InOrder(run[q].handed)]_vars

\* Task t1 was cancelled by the user, was told so and has retired; task t2 has
\* delivered its transcript, has completed and has saved its record.
C22_Witness ==
    /\ run["r1"].pc = "done" /\ run["r1"].tid = "t1"
    /\ run["r1"].term = "cancelled" /\ UserCancelNotified("r1")
    /\ run["r2"].pc = "done" /\ run["r2"].tid = "t2"
    /\ run["r2"].term = "completed" /\ Kinds("r2") = <<"human">>
    /\ run["r2"].saved = 1

----------------------------------------------------------------------------
\* The statement, trimmed and upper-cased, starts with SELECT and contains no
\* forbidden keyword.
ReadOnlySelect(q) ==
    LET u == StripUpper(q)
    IN  /\ u # << >> /\ u[1] = "SELECT"
        /\ \A n \in DOMAIN u : u[n] \notin ForbiddenKeywords

\* Agent a is in, or past, the call of the external query executor.
AtExecutor(a) == inv[a].tool = "sql_db_query" /\ inv[a].pc \in {"exec", "record"}

(* C23: sql_db_query gets to the external query executor only with a statement
   that, trimmed and upper-cased, starts with SELECT and contains none of the
   forbidden keywords, and only from a governor check of this call that returned
   allowed; a vetoed or unsafe call does not get there. *)
C23_ExecutorGuarded ==
    [][\A a \in Agents :
          /\ AtExecutor(a)' => ReadOnlySelect(inv'[a].q)
          /\ (AtExecutor(a)' /\ ~AtExecutor(a))
                => /\ inv[a].pc = "check" /\ inv[a].q = inv'[a].q
                   /\ Decision(a).allowed
          /\ ( /\ inv[a].tool = "sql_db_query" /\ inv[a].pc = "check"
               /\ inv'[a] # inv[a] /\ ~Decision(a).allowed )
                => ~AtExecutor(a)' /\ inv'[a].fin.ds = "none"]_vars

\* The executor has run a SELECT written in lower case with leading white space.
C23_Witness ==
    /\ inv["a1"].tool = "sql_db_query" /\ inv["a1"].pc = "record"
    /\ inv["a1"].q = QSelectLoose /\ inv["a1"].out = "ok"
    /\ inv["a1"].fin.dec = "none" /\ inv["a1"].fin.ret = "err_forbidden"

----------------------------------------------------------------------------
\* Run r stopped emitting because a poll found the cancellation flag set: the
\* poll of the streaming loop, or a poll inside _print_message.
ObservedCancel(r) == run[r].term = "cancelled" \/ run[r].cause = "poll"

(* C24: a run that stopped emitting because it observed the cancellation flag,
   at a poll of the loop or at a poll inside the rendering of a message (between
   the text of an agent message and its tool-call lines), has ended its stream
   with the user-cancellation notice followed by the end event.  Stated for a
   healthy channel and a coroutine that is not cancelled. *)
C24_CancelPollEndsStream ==
    \A r \in Runs :
        ( /\ run[r].pc = "done" /\ ObservedCancel(r)
          /\ chan[r] = "open" /\ ~run[r].killed )
            => LET f == Frames(r)
               IN  /\ Len(f) >= 2
                   /\ f[Len(f) - 1].k = "cancel_notice"
                   /\ f[Len(f)].k = "end"

(* C25: _print_message returns False only when the channel rejected a write, so a
   run has connection_closed set only after a write or flush on its channel has
   failed with a transport failure. *)
C25_DisconnectOnlyAfterFailedWrite ==
    \A r \in Runs :
        run[r].cc => /\ chan[r] = "closed"
                     /\ run[r].cause = "write"
                     /\ TransportFailure(run[r].exc)

----------------------------------------------------------------------------
\* Run r has left the streaming loop by completion, cancellation or disconnect.
LeftLoop(r) == run[r].term \in {"completed", "cancelled", "disconnected"}

(* C26: after each snapshot has been processed, and when the run has left the
   streaming loop by completion, cancellation or disconnect, printed_count is
   the number of messages whose rendering was completed for the run.  Stated
   for a coroutine that is not cancelled. *)
C26_CursorCountsRendered ==
    \A r \in Runs :
        (~run[r].killed /\ (run[r].pc = "flush" \/ LeftLoop(r)))
            => run[r].printed = run[r].rendered

(* C27: once connection_closed is set because rendering reported a transport
   failure, the run takes no further snapshot, hands no further message to
   rendering and attempts no further write of any kind; all that is left is the
   saving of the record and the retirement of the registry entry.  Stated for a
   coroutine that is not cancelled. *)
C27_SilentAfterDisconnect ==
    [][\A r \in Runs :
          (run[r].cc /\ ~run'[r].killed)
              => /\ log'[r] = log[r]
                 /\ run'[r].snap = run[r].snap
                 /\ run'[r].handed = run[r].handed
                 /\ run'[r].t02 = run[r].t02
                 /\ run'[r].saved = run[r].saved
                 /\ run[r].pc \in {"save", "done"}
                 /\ run'[r].pc \in {"save", "done"}]_vars

\* The second write of a four-message transcript failed with a transport failure
\* after two messages were in the snapshot; the record was saved and the entry
\* retired, and the rest of the transcript was never asked for.
C27_Witness ==
    /\ run["r1"].pc = "done" /\ run["r1"].cc /\ run["r1"].cause = "write"
    /\ run["r1"].script = 1 /\ run["r1"].snap = 2
    /\ Len(log["r1"]) = 2 /\ log["r1"][1].ok /\ ~log["r1"][2].ok
    /\ run["r1"].saved = 1 /\ "t1" \notin GetRunningTasks(reg)

----------------------------------------------------------------------------
\* RUNTIME_TIMEOUT, as the error classifier is specified: by a timeout category
\* or by a timeout keyword in the message.
TimeoutFailure(e) == e.ty \in {"TimeoutError", "asyncio.TimeoutError"} \/ e.tokw

\* The class of a failure, with the precedence of the claim.
ClassOf(e) ==
    IF TransportFailure(e) THEN "TRANSPORT"
    ELSE IF TimeoutFailure(e) THEN "RUNTIME_TIMEOUT"
    ELSE "RUNTIME_OTHER"

\* The failure messages run r has chosen or written.
Chosen(r) ==
    ({run[r].errk} \cup {log[r][n].k : n \in DOMAIN log[r]}) \cap FailureKinds

(* C28: the handler of _stream_agent_response puts every exception of the agent
   runtime in exactly one class: TRANSPORT when the type or the message matches a
   transport pattern, also when a timeout pattern matches too, and then nothing
   is written; otherwise RUNTIME_TIMEOUT when the type is a timeout type or the
   message contains a timeout keyword, and then the remediation message is the
   only failure message; otherwise RUNTIME_OTHER, with the generic message. *)
C28_ClassifierPrecedence ==
    \A r \in Runs :
        run[r].cause = "runtime" =>
            LET c == ClassOf(run[r].exc)
            IN  /\ c \in {"TRANSPORT", "RUNTIME_TIMEOUT", "RUNTIME_OTHER"}
                /\ run[r].cc = (c = "TRANSPORT")
                /\ c = "TRANSPORT" => Chosen(r) = {} /\ Count(log[r], {"end"}) = 0
                /\ c = "RUNTIME_TIMEOUT" => Chosen(r) = {"timeout_err"}
                /\ c = "RUNTIME_OTHER" => Chosen(r) = {"other_err"}

\* A ConnectionError whose message has a transport and a timeout keyword was
\* handled silently; the run has ended.
C28_Witness ==
    /\ run["r1"].pc = "done" /\ run["r1"].cause = "runtime"
    /\ run["r1"].exc.ty = "ConnectionError"
    /\ run["r1"].exc.connkw /\ run["r1"].exc.tokw
    /\ run["r1"].cc /\ log["r1"] = << >>

\* The error messages that quote the text of the underlying error.
QuotingKinds == {"other_err", "agent_err"}

(* C29: every error message written for a failure that is neither a transport
   failure nor a timeout, by the handler of _stream_agent_response or by the one
   of run_agent, quotes at most 200 characters of the text of the error. *)
C29_BoundedExcerpt ==
    \A r \in Runs :
        \A n \in DOMAIN log[r] :
            log[r][n].k \in QuotingKinds => log[r][n].n <= ExcerptLimit

----------------------------------------------------------------------------
\* The tool names whose invocation has a banner.
Recognised == GovernedTools

\* The message renders nothing: an agent utterance without text and without
\* tool calls, or one without text whose tool calls are all unrecognised.
RendersNothing(m) ==
    /\ m.type = "ai" /\ ~m.text
    /\ \A n \in DOMAIN m.calls : m.calls[n] \notin Recognised

\* The blocks a message is to render, in order.
ExpectedBlocks(m) ==
    CASE m.type = "human" -> IF m.text THEN <<"human">> ELSE << >>
      [] m.type = "ai" ->
            (IF m.text THEN <<"agent">> ELSE << >>)
            \o [n \in 1..Cardinality({c \in DOMAIN m.calls : m.calls[c] \in Recognised})
                    |-> "toolcall"]
      [] m.type = "tool" ->
            IF FormatToolResult(m.name, m.err) = "none" THEN << >>
            ELSE <<FormatToolResult(m.name, m.err)>>

\* The blocks of the first n messages of a transcript.
RECURSIVE ExpectedUpTo(_, _)
ExpectedUpTo(script, n) ==
    IF n = 0 THEN << >>
    ELSE ExpectedUpTo(script, n - 1) \o ExpectedBlocks(Scripts[script][n])

(* C30: a message that renders nothing (an agent utterance with empty content and
   no tool calls, or one whose only tool call has an unrecognised name) writes no
   frame and adds nothing to the record, and yet counts as rendered: between two
   messages, as long as the run has not been cancelled, the frames written and the
   blocks collected are those of the messages rendered so far, such messages
   contributing none; every message handed over was rendered, and after each
   snapshot printed_count has advanced past them. *)
C30_SilentMessagesSkipped ==
    \A r \in Runs :
        ( /\ run[r].script # 0 /\ run[r].pc # "w_msg"
          /\ run[r].term \in {"none", "completed"} )
            => LET shown == ExpectedUpTo(run[r].script, run[r].rendered)
               IN  /\ Kinds(r) = shown
                   /\ run[r].t02 = shown
                   /\ Len(run[r].handed) = run[r].rendered
                   /\ run[r].printed = run[r].rendered
                   /\ \A n \in 1..run[r].rendered :
                         RendersNothing(Scripts[run[r].script][n])
                             => ExpectedUpTo(run[r].script, n)
                                    = ExpectedUpTo(run[r].script, n - 1)

\* The transcript human, empty agent message, agent message with an unrecognised
\* tool call, agent text was delivered in full: two frames, two blocks, cursor 4.
C30_Witness ==
    /\ run["r1"].pc = "done" /\ run["r1"].script = 5 /\ run["r1"].term = "completed"
    /\ run["r1"].printed = 4 /\ run["r1"].rendered = 4
    /\ Kinds("r1") = <<"human", "agent">> /\ run["r1"].t02 = <<"human", "agent">>
    /\ run["r1"].saved = 1

----------------------------------------------------------------------------
IsBanner(f) == f.k \in {"result_ok", "result_fail"}

\* The tool-result banners the client received from run r, in order.
Banners(r) == SelectSeq(Frames(r), IsBanner)

IsToolResult(m) == m.type = "tool"

\* The tool-result messages among the first n messages of a transcript.
ToolResults(script, n) == SelectSeq(SubSeq(Scripts[script], 1, n), IsToolResult)

(* C31: every tool-result message produces exactly one banner: a failure banner
   with messageType "error" when the result text contains the error indicator, a
   success banner with messageType "info" otherwise.  Stated between two
   messages of a run that has not been cancelled, on a healthy channel, for the
   tool results among the messages rendered so far. *)
C31_OneBannerPerToolResult ==
    \A r \in Runs :
        ( /\ run[r].script # 0 /\ run[r].pc # "w_msg"
          /\ run[r].term \in {"none", "completed"} )
            => LET b == Banners(r)
                   t == ToolResults(run[r].script, run[r].rendered)
               IN  /\ Len(b) = Len(t)
                   /\ \A n \in DOMAIN b :
                         /\ b[n].k = IF t[n].err THEN "result_fail" ELSE "result_ok"
                         /\ b[n].mt = IF t[n].err THEN "error" ELSE "info"

----------------------------------------------------------------------------
\* CANCELLED, COMPLETED, FAILED, DISCONNECTED
TerminalStates == {"cancelled", "completed", "failed", "disconnected"}

\* Run r has registered its task and run_agent has not returned.
Registered(r) == run[r].tid # "none" /\ run[r].pc # "done"

(* C32: every run that registered its task eventually retires: run_agent returns
   and the entry of its task_id is gone; by then the run has left the streaming
   loop through one terminal state (cancelled, completed, failed, disconnected,
   or the CancelledError of a cancelled coroutine), and the terminal state of a
   run, once taken, does not change. *)
C32_EventuallyRetires ==
    /\ \A r \in Runs :
          Registered(r) ~>
              ( /\ run[r].pc = "done"
                /\ run[r].tid \notin GetRunningTasks(reg)
                /\ run[r].killed \/ run[r].term \in TerminalStates )
    /\ [][\A r \in Runs :
             run[r].term # "none" => run'[r].term = run[r].term]_vars

\* The run was cancelled by the user while it was streaming and has retired.
C32_Witness ==
    /\ run["r1"].pc = "done" /\ run["r1"].term = "cancelled"
    /\ ~run["r1"].killed /\ run["r1"].rendered = 1
    /\ GetRunningTasks(reg) = {}

----------------------------------------------------------------------------
\* The step of agent a that is being taken belongs to an allowed sql_db_query.
QueryStep(a, from, to) ==
    /\ inv[a].tool = "sql_db_query" /\ inv[a].pc = from /\ inv'[a].pc = to

(* C33: an allowed sql_db_query goes through check, execute, record in that
   order, and the Call Records it appends carry success = true exactly when it
   returned a successful result: an invocation that returned the failure text
   appended no record with success = true. *)
C33_RecordMatchesOutcome ==
    [][\A a \in Agents :
          /\ (inv[a].tool = "sql_db_query" /\ inv'[a] # inv[a]) =>
                \/ inv[a].pc = "idle"
                \/ QueryStep(a, "check", "exec") \/ QueryStep(a, "check", "idle")
                \/ QueryStep(a, "exec", "record")
                \/ QueryStep(a, "record", "idle")
          /\ (QueryStep(a, "record", "idle")) =>
                \A n \in DOMAIN inv'[a].fin.succ :
                    inv'[a].fin.succ[n] = (inv'[a].fin.ret = "ok")]_vars

----------------------------------------------------------------------------
\* Run r is called without a data-source id in the step being taken.
CalledWithoutDatasource(r) ==
    run[r].pc = "idle" /\ run'[r].pc = "done" /\ run'[r].tid = "none"

(* C34: run_agent called without a data-source id writes exactly one frame, of
   messageType "error", and returns: it registers no task, starts no agent
   runtime, persists no record, and get_running_tasks() is what it was. *)
C34_NoDatasourceOnlyError ==
    [][\A r \in Runs :
          CalledWithoutDatasource(r) =>
              /\ Len(log'[r]) = Len(log[r]) + 1
              /\ log'[r][Len(log'[r])].mt = "error"
              /\ log'[r][Len(log'[r])].ok
              /\ ~run'[r].escaped
              /\ reg' = reg
              /\ GetRunningTasks(reg') = GetRunningTasks(reg)
              /\ run'[r].script = 0 /\ run'[r].snap = 0
              /\ run'[r].saved = 0 /\ run'[r].t02 = << >>]_vars

----------------------------------------------------------------------------
(* C35: the delivery cursor belongs to one run: every run starts with
   printed_count = 0 and nothing handed over, and the messages of its snapshots
   are handed to rendering from the first message of the thread on, in
   transcript order, each after the ones before it were rendered: the messages
   that earlier turns left on the thread come before every message of the
   current turn. *)
C35_HistoryRenderedFirst ==
    [][\A r \in Runs :
          /\ (run[r].pc = "idle" /\ run'[r].pc = "astream")
                => run'[r].printed = 0 /\ run'[r].handed = << >>
          /\ (run'[r].handed # run[r].handed /\ run[r].pc # "idle")
                => /\ Len(run'[r].handed) > Len(run[r].handed)
                   /\ \A k \in DOMAIN run'[r].handed : run'[r].handed[k] = k
                   /\ run'[r].rendered >= Len(run'[r].handed) - 1]_vars

\* The first snapshot of the second turn has been rendered: the two messages of
\* the first turn and the new question.
C35_Witness ==
    /\ run["r1"].script = 7 /\ run["r1"].pc = "astream"
    /\ run["r1"].snap = History(7) + 1 /\ run["r1"].printed = run["r1"].snap
    /\ run["r1"].handed = <<1, 2, 3>> /\ run["r1"].rendered = 3
    /\ Len(Frames("r1")) = 3

====
